---- MODULE Spec2Model ----
(***************************************************************************)
(* Model of pmail (protonmail_cli): message-reference resolution and the   *)
(* mailbox action commands of cli.py, with the session file of config.py   *)
(* and the label tables of cli.py and formatting.py.                       *)
(*                                                                         *)
(* One command invocation is one short-lived process.  A command action    *)
(* runs the whole handler: it draws the command line and the answers of    *)
(* the mail collaborator (the ProtonMail client object), and records the   *)
(* collaborator calls made, what was printed, and how the process ended.   *)
(* A string is a sequence of characters (each a one-element token).        *)
(* A collaborator call fails by raising: the handlers ignore every return  *)
(* value of a mutation call and catch nothing but the failure of login.    *)
(***************************************************************************)
EXTENDS Integers, Sequences, FiniteSets, TLC

(* ------------------------------ bounds -------------------------------- *)

\* largest number of references on one command line
MaxRefs == 2
\* largest number of messages the inbox listing returns
MaxInbox == 2
\* largest number of polls of one watch, and largest timeout in intervals
MaxPolls == 2
\* largest number of entries in the events of one poll
MaxEvents == 2

(* --------------------------- characters ------------------------------- *)

\* len(ref) <= 4
MaxIndexDigits == 4

\* ASCII decimal digits that occur in the modelled command lines
DecimalDigits == {"0", "1"}
\* U+00B2 SUPERSCRIPT TWO: str.isdigit() is True for it, int() rejects it
SuperscriptTwo == "sup2"
\* a letter
Letter == "x"
Chars == DecimalDigits \cup {SuperscriptTwo, Letter}

\* the characters c for which c.isdigit() is True
IsDigitChars == DecimalDigits \cup {SuperscriptTwo}

DigitValue(c) == IF c = "0" THEN 0 ELSE 1

\* str.isdigit(): non-empty and every character is a digit character
isdigit(s) == Len(s) > 0 /\ \A i \in 1..Len(s) : s[i] \in IsDigitChars

\* whether int(s) returns (it raises ValueError otherwise)
int_parses(s) == Len(s) > 0 /\ \A i \in 1..Len(s) : s[i] \in DecimalDigits

RECURSIVE int(_)
\* int(s) for a string of decimal digits, base 10, leading zeros allowed
int(s) ==
    IF Len(s) = 0 THEN 0
    ELSE 10 * int(SubSeq(s, 1, Len(s) - 1)) + DigitValue(s[Len(s)])

\* the test of cli.py that sends a reference to the index branch
looks_like_index(ref) == isdigit(ref) /\ Len(ref) <= MaxIndexDigits

(* ------------------------------ inputs -------------------------------- *)

RECURSIVE Zeros(_)
Zeros(k) == IF k = 0 THEN <<>> ELSE <<"0">> \o Zeros(k - 1)

\* Reference strings on the command line: the empty string, one character,
\* and one character behind leading zeros that bring the length to exactly
\* MaxIndexDigits and to MaxIndexDigits + 1.
PadLengths == {0, MaxIndexDigits - 1, MaxIndexDigits}
Tails == {<<>>} \cup {<<c>> : c \in Chars}
RefStrings == {Zeros(k) \o t : k \in PadLengths, t \in Tails}

\* nargs=-1, required=True: at least one reference
Batches == UNION {[1..n -> RefStrings] : n \in 1..MaxRefs}

\* the durable identifier of the message at position n of the inbox: "x",
\* "x0", "x00", ...; all distinct, none of them index-like
MessageId(n) == <<Letter>> \o Zeros(n)
\* an inbox listing of n messages
Listing(n) == [i \in 1..n |-> MessageId(i - 1)]

\* what a collaborator call can raise
CollabErrors == {"NetworkError", "AuthError"}
NoError == "None"

\* answers of proton.get_messages(label_or_id="0"): a listing or an exception
FetchResponses ==
    {[error |-> NoError, messages |-> Listing(n)] : n \in 0..MaxInbox}
    \cup {[error |-> e, messages |-> <<>>] : e \in CollabErrors}

\* answers of a mutation call: it returns or raises
MutationResponses == {NoError} \cup CollabErrors

Max(S) == CHOOSE m \in S : \A n \in S : n <= m

(* ----------------------------- exceptions ----------------------------- *)

NoExc == [type |-> "None"]
CollabExc(e) == [type |-> e]
ValueError == [type |-> "ValueError"]
NotLoggedIn == [type |-> "SystemExit", msg |-> "Not logged in. Run: pmail login"]
\* SystemExit(f"Login failed: {e}")
LoginFailed(e) == [type |-> "SystemExit", msg |-> "Login failed", cause |-> e]
\* SystemExit(f"Index {idx} out of range")
IndexOutOfRange(idx) ==
    [type |-> "SystemExit", msg |-> "Index out of range",
     reported |-> [requested |-> idx]]
\* SystemExit(f"Index {idx} out of range (have {len(messages)} messages)")
IndexOutOfRangeHave(idx, n) ==
    [type |-> "SystemExit", msg |-> "Index out of range",
     reported |-> [requested |-> idx, available |-> n]]

(* ---------------------------- label tables --------------------------- *)

FOLDER_ALIASES ==
    [inbox |-> "0", drafts |-> "1", sent |-> "2", starred |-> "3",
     archive |-> "4", all |-> "5", spam |-> "6", trash |-> "7"]

SYSTEM_LABELS ==
    ("0" :> "Inbox") @@ ("1" :> "Drafts") @@ ("2" :> "Sent") @@
    ("3" :> "Starred") @@ ("4" :> "Archive") @@ ("5" :> "All Mail") @@
    ("6" :> "Spam") @@ ("7" :> "Trash") @@ ("8" :> "Draft-Sent") @@
    ("10" :> "Scheduled")

\* dict.get(key, default)
get(table, key, default) == IF key \in DOMAIN table THEN table[key] ELSE default

\* FOLDER arguments of ls: the aliases, one of them capitalised, and label
\* ids given as they are
FolderArgs == DOMAIN FOLDER_ALIASES \cup {"Starred", "10", "custom"}

\* str.lower() on the folder arguments
lower(folder) == IF folder = "Starred" THEN "starred" ELSE folder

(* ------------------------------- state -------------------------------- *)

VARIABLES
    session,    \* SESSION_FILE exists
    pc,         \* "idle": at the shell prompt; "exited": a command has run
    cmd,        \* the command that ran
    refs,       \* its message references
    calls,      \* the collaborator calls it made, in order, with their results
    snapshot,   \* the inbox listing it fetched: [fetched, messages]
    ids,        \* the resolved identifiers (the local ids)
    stdout,     \* what it printed with console.print
    outcome,    \* [exit, exc]: exit status and the exception that ended it
    mailbox,    \* the collaborator's messages, newest first: the folder of each
    listed,     \* the rows the last ls displayed: [shown, label_id, rows]
    watching    \* the running watch: [timeout, elapsed], in poll intervals

vars == <<session, pc, cmd, refs, calls, snapshot, ids, stdout, outcome,
          mailbox, listed, watching>>

(* ------------------------- collaborator calls ------------------------- *)

\* the state of a running handler: the calls made so far, the listing
\* fetched, the identifiers resolved, what was printed, and the exception
\* that is propagating (NoExc while the handler is still running)
Start ==
    [calls |-> <<>>, inbox_cache |-> [fetched |-> FALSE, messages |-> <<>>],
     ids |-> <<>>, stdout |-> <<>>, exc |-> NoExc]

raise(st, e) == [st EXCEPT !.exc = e]

\* faulty variant of get_client: the session file is not looked for
get_client_unchecked(sess, st) == st

\* get_client(): SystemExit unless the session file exists; load_session
\* then reads the file and makes no mailbox call
get_client(sess, st) == IF sess THEN st ELSE raise(st, NotLoggedIn)

\* proton.get_messages(page_size=n, label_or_id="0") answering resp
get_messages(st, n, resp) ==
    LET call == [op |-> "get_messages", page_size |-> n, label_or_id |-> "0",
                 error |-> resp.error]
    IN  IF resp.error # NoError
        THEN [st EXCEPT !.calls = Append(@, call), !.exc = CollabExc(resp.error)]
        ELSE [st EXCEPT !.calls = Append(@, call),
                        !.inbox_cache = [fetched |-> TRUE, messages |-> resp.messages]]

\* faulty variant of call_on_ids: the exception of the call is swallowed
\* (try: ... except Exception: pass)
call_on_ids_swallowing(st, op, label, m) ==
    IF st.exc # NoExc THEN st
    ELSE [st EXCEPT !.calls =
            Append(@, [op |-> op, label |-> label, ids |-> st.ids, error |-> m])]

\* faulty variant of call_on_ids: a loop of one call per identifier
RECURSIVE call_per_id(_, _, _, _, _)
call_per_id(st, op, label, m, i) ==
    IF i > Len(st.ids) THEN st
    ELSE call_per_id(
           [st EXCEPT !.calls =
              Append(@, [op |-> op, label |-> label, ids |-> <<st.ids[i]>>,
                         error |-> NoError])],
           op, label, m, i + 1)

call_on_ids_one_by_one(st, op, label, m) ==
    IF st.exc # NoExc THEN st
    ELSE IF m # NoError \/ Len(st.ids) = 0
    THEN [st EXCEPT !.calls =
            Append(@, [op |-> op, label |-> label, ids |-> st.ids, error |-> m]),
                    !.exc = IF m = NoError THEN NoExc ELSE CollabExc(m)]
    ELSE call_per_id(st, op, label, m, 1)

\* one call op(label, ids) over the whole list st.ids, answering m: the
\* call is logged, and raises when m is an error
call_on_ids(st, op, label, m) ==
    IF st.exc # NoExc THEN st
    ELSE [st EXCEPT !.calls =
            Append(@, [op |-> op, label |-> label, ids |-> st.ids, error |-> m]),
                    !.exc = IF m = NoError THEN NoExc ELSE CollabExc(m)]

\* console.print(f"[green]<text> {len(ids)} message(s).[/]")
print_count(st, text) ==
    IF st.exc # NoExc THEN st
    ELSE [st EXCEPT !.stdout = Append(@, [text |-> text, count |-> Len(st.ids)])]

\* console.print of a fixed line
print_line(st, text) ==
    IF st.exc # NoExc THEN st
    ELSE [st EXCEPT !.stdout = Append(@, [text |-> text])]

(* --------------------------- _resolve_refs ---------------------------- *)

\* faulty variant of lookup: inbox_cache[idx - 1].id, which for idx = 0 is
\* the last element
lookup_previous(cache, idx) ==
    IF idx = 0 THEN cache.messages[Len(cache.messages)] ELSE cache.messages[idx]

\* inbox_cache[idx].id
lookup(cache, idx) == cache.messages[idx + 1]

\* faulty variant of on_out_of_range: the reference is skipped (continue)
skip_out_of_range(st, idx) == st

\* raise SystemExit(f"Index {idx} out of range")
on_out_of_range(st, idx) == raise(st, IndexOutOfRange(idx))

\* the first index reference met: max over all index-like references of the
\* batch (int() raises on one that is no decimal numeral), then one fetch
fetch_inbox(all, st, resp) ==
    LET index_refs == {i \in 1..Len(all) : looks_like_index(all[i])}
    IN  IF \E i \in index_refs : ~int_parses(all[i])
        THEN raise(st, ValueError)
        ELSE get_messages(st, Max({int(all[i]) : i \in index_refs}) + 1, resp)

\* the body of the loop for one reference
resolve_step(all, ref, st, resp) ==
    IF looks_like_index(ref)
    THEN IF ~int_parses(ref)
         THEN raise(st, ValueError)
         ELSE LET idx == int(ref)
                  st1 == IF ~st.inbox_cache.fetched
                         THEN fetch_inbox(all, st, resp)
                         ELSE st
              IN  IF st1.exc # NoExc THEN st1
                  ELSE IF idx >= Len(st1.inbox_cache.messages)
                  THEN on_out_of_range(st1, idx)
                  ELSE [st1 EXCEPT !.ids = Append(@, lookup(st1.inbox_cache, idx))]
    ELSE [st EXCEPT !.ids = Append(@, ref)]

RECURSIVE resolve_loop(_, _, _, _)
resolve_loop(all, i, st, resp) ==
    IF i > Len(all) \/ st.exc # NoExc THEN st
    ELSE resolve_loop(all, i + 1, resolve_step(all, all[i], st, resp), resp)

_resolve_refs(st, message_refs, resp) ==
    IF st.exc # NoExc THEN st ELSE resolve_loop(message_refs, 1, st, resp)

(* ------------------------- managing emails ---------------------------- *)

delete(sess, message_refs, resp, m1) ==
    LET st == _resolve_refs(get_client(sess, Start), message_refs, resp)
    IN  print_count(call_on_ids(st, "delete_messages", "", m1), "Deleted")

\* faulty variant of archive: the Inbox label is removed first
archive_remove_first(sess, message_refs, resp, m1, m2) ==
    LET st  == _resolve_refs(get_client(sess, Start), message_refs, resp)
        st1 == call_on_ids(st, "unset_label_for_messages", "0", m1)
        st2 == call_on_ids(st1, "set_label_for_messages", "4", m2)
    IN  print_count(st2, "Archived")

archive(sess, message_refs, resp, m1, m2) ==
    LET st  == _resolve_refs(get_client(sess, Start), message_refs, resp)
        st1 == call_on_ids(st, "set_label_for_messages", "4", m1)
        st2 == call_on_ids(st1, "unset_label_for_messages", "0", m2)
    IN  print_count(st2, "Archived")

spam(sess, message_refs, resp, m1, m2) ==
    LET st  == _resolve_refs(get_client(sess, Start), message_refs, resp)
        st1 == call_on_ids(st, "set_label_for_messages", "6", m1)
        st2 == call_on_ids(st1, "unset_label_for_messages", "0", m2)
    IN  print_count(st2, "Marked as spam")

star(sess, message_refs, resp, m1) ==
    LET st == _resolve_refs(get_client(sess, Start), message_refs, resp)
    IN  print_count(call_on_ids(st, "set_label_for_messages", "10", m1), "Starred")

unread(sess, message_refs, resp, m1) ==
    LET st == _resolve_refs(get_client(sess, Start), message_refs, resp)
    IN  print_count(call_on_ids(st, "mark_messages_as_unread", "", m1),
                    "Marked as unread")

(* ------------------- commands on a single reference ------------------- *)

\* a collaborator call that takes no identifier list, answering m
call(st, op, m) ==
    IF st.exc # NoExc THEN st
    ELSE [st EXCEPT !.calls =
            Append(@, [op |-> op, label |-> "", ids |-> <<>>, error |-> m]),
                    !.exc = IF m = NoError THEN NoExc ELSE CollabExc(m)]

\* msg_id = message_ref, replaced through the inbox when it looks like an
\* index; read reports the length of the listing, the other commands do not
resolve_ref(st, message_ref, resp, with_have) ==
    IF st.exc # NoExc THEN st
    ELSE IF looks_like_index(message_ref)
    THEN IF ~int_parses(message_ref)
         THEN raise(st, ValueError)
         ELSE LET idx == int(message_ref)
                  st1 == get_messages(st, idx + 1, resp)
              IN  IF st1.exc # NoExc THEN st1
                  ELSE IF idx >= Len(st1.inbox_cache.messages)
                  THEN raise(st1,
                         IF with_have
                         THEN IndexOutOfRangeHave(idx, Len(st1.inbox_cache.messages))
                         ELSE IndexOutOfRange(idx))
                  ELSE [st1 EXCEPT !.ids = <<lookup(st1.inbox_cache, idx)>>]
    ELSE [st EXCEPT !.ids = <<message_ref>>]

read(sess, message_ref, no_mark_read, resp, m1) ==
    LET st  == resolve_ref(get_client(sess, Start), message_ref, resp, TRUE)
        st1 == call_on_ids(st, "read_message",
                 IF no_mark_read THEN "mark_as_read=False" ELSE "mark_as_read=True",
                 m1)
    IN  print_line(st1, "Message")

reply(sess, message_ref, resp, m1, m2, m3) ==
    LET st  == resolve_ref(get_client(sess, Start), message_ref, resp, FALSE)
        st1 == call_on_ids(st, "read_message", "", m1)
        st2 == call(st1, "create_message", m2)
        st3 == call(st2, "send_message", m3)
    IN  print_line(st3, "Reply sent!")

forward(sess, message_ref, resp, m1, m2, m3) ==
    LET st  == resolve_ref(get_client(sess, Start), message_ref, resp, FALSE)
        st1 == call_on_ids(st, "read_message", "", m1)
        st2 == call(st1, "create_message", m2)
        st3 == call(st2, "send_message", m3)
    IN  print_line(st3, "Forwarded!")

download(sess, message_ref, resp, m1, has_attachments, m2) ==
    LET st  == resolve_ref(get_client(sess, Start), message_ref, resp, FALSE)
        st1 == call_on_ids(st, "read_message", "", m1)
    IN  IF ~has_attachments
        THEN print_line(st1, "No attachments.")
        ELSE print_line(call(st1, "download_files", m2), "Saved or skipped")

(* ------------------------------ listing ------------------------------- *)

\* messages[:limit]
head(messages, limit) ==
    IF limit >= Len(messages) THEN messages ELSE SubSeq(messages, 1, limit)

\* ls: the page of all mail, replaced by the listing of the folder's label
\* unless the folder is "all"; the rows are numbered from 0 as listed
ls(sess, folder, limit, page, by_page, by_label) ==
    LET label_id == get(FOLDER_ALIASES, lower(folder), folder)
        folder_name == get(SYSTEM_LABELS, label_id, folder)
        st  == get_client(sess, Start)
        c1  == [op |-> "get_messages_by_page", page |-> page, page_size |-> limit,
                error |-> by_page.error]
        c2  == [op |-> "get_messages", page_size |-> limit, label_or_id |-> label_id,
                error |-> by_label.error]
        shown == IF label_id # "5" THEN head(by_label.messages, limit)
                 ELSE by_page.messages
    IN  IF st.exc # NoExc THEN st
        ELSE IF by_page.error # NoError
        THEN [st EXCEPT !.calls = <<c1>>, !.exc = CollabExc(by_page.error)]
        ELSE IF label_id # "5" /\ by_label.error # NoError
        THEN [st EXCEPT !.calls = <<c1, c2>>, !.exc = CollabExc(by_label.error)]
        ELSE [st EXCEPT
                !.calls = IF label_id # "5" THEN <<c1, c2>> ELSE <<c1>>,
                !.inbox_cache = [fetched |-> TRUE, messages |-> shown],
                !.stdout = IF Len(shown) = 0
                           THEN <<[text |-> "No messages", folder |-> folder_name]>>
                           ELSE <<[text |-> "list", folder |-> folder_name,
                                   rows |-> shown],
                                  [text |-> "Use pmail read <#>"]>>]

(* -------------------------------- auth -------------------------------- *)

\* login: proton.login answering m; a failure becomes SystemExit
login(m) ==
    LET c == [op |-> "login", label |-> "", ids |-> <<>>, error |-> m]
    IN  IF m # NoError
        THEN [Start EXCEPT !.calls = <<c>>, !.exc = LoginFailed(m)]
        ELSE [Start EXCEPT
                !.calls = <<c, [op |-> "save_session", label |-> "", ids |-> <<>>,
                               error |-> NoError]>>,
                !.stdout = <<[text |-> "Logged in"], [text |-> "Session saved"]>>]

\* logout: removes the session file when there is one
logout(sess) ==
    [Start EXCEPT !.stdout = IF sess THEN <<[text |-> "Session removed."]>>
                             ELSE <<[text |-> "No active session."]>>]

(* ----------------------- other mail commands -------------------------- *)

\* whoami: the addresses of the loaded session, one line each
whoami(sess, n) ==
    IF n = 0 THEN get_client(sess, Start)
    ELSE print_line(get_client(sess, Start), "address")

\* thread: read_conversation, then the messages
thread(sess, m) ==
    print_line(call(get_client(sess, Start), "read_conversation", m), "Message")

\* send: create_attachment for a file given with --attach, create_message,
\* send_message
send(sess, attach, m1, m2, m3) ==
    LET st  == get_client(sess, Start)
        st1 == IF attach THEN call(st, "create_attachment", m1) ELSE st
        st2 == call(st1, "create_message", m2)
        st3 == call(st2, "send_message", m3)
    IN  print_line(st3, "Sent!")

\* folders: get_all_labels, then the system folders
folders(sess, m) ==
    print_line(call(get_client(sess, Start), "get_all_labels", m),
               "System folders:")

\* count: get_messages_count, then the table
count(sess, m) ==
    print_line(call(get_client(sess, Start), "get_messages_count", m),
               "Message counts")

(* ------------------------------- watch -------------------------------- *)

NotWatching == [timeout |-> 0, elapsed |-> 0]

\* what console.print raises on a line it cannot render, such as rich's
\* MarkupError for a subject that holds a closing tag like [/b]
RenderError == [type |-> "MarkupError"]

\* the entries of response["Messages"]: a new message (Action 1) whose line
\* renders, a new message whose line does not, and another action
EventEntries ==
    {[Action |-> 1, renders |-> TRUE], [Action |-> 1, renders |-> FALSE],
     [Action |-> 0, renders |-> TRUE]}

\* answers of one poll of the event stream: the events or an exception
PollResponses ==
    {[error |-> NoError, Messages |-> ev] :
        ev \in UNION {[1..n -> EventEntries] : n \in 0..MaxEvents}}
    \cup {[error |-> e, Messages |-> <<>>] : e \in CollabErrors}

\* the body of the loop of on_event for one entry: a new message is
\* printed, and console.print raises on a line it cannot render
on_event_entry(st, entry) ==
    IF st.exc # NoExc THEN st
    ELSE IF entry.Action = 1
    THEN IF entry.renders THEN print_line(st, "New:")
         ELSE raise(st, RenderError)
    ELSE st

RECURSIVE on_event_loop(_, _, _)
on_event_loop(st, new_msgs, i) ==
    IF i > Len(new_msgs) THEN st
    ELSE on_event_loop(on_event_entry(st, new_msgs[i]), new_msgs, i + 1)

\* on_event(response)
on_event(st, response) == on_event_loop(st, response.Messages, 1)

\* one round of proton.event_polling: the poll is logged and raises when it
\* fails; otherwise the callback runs on its events, and what the callback
\* raises leaves event_polling as it is
poll(st, resp) ==
    LET st1 == [st EXCEPT !.calls =
                  Append(@, [op |-> "event_polling", events |-> Len(resp.Messages),
                             error |-> resp.error])]
    IN  IF resp.error # NoError THEN raise(st1, CollabExc(resp.error))
        ELSE on_event(st1, resp)

\* the handler state of the running process
Running ==
    [calls |-> calls, inbox_cache |-> snapshot, ids |-> ids, stdout |-> stdout,
     exc |-> NoExc]

(* ------------------------------ mailbox ------------------------------- *)

\* no listing has been displayed
NoListing == [shown |-> FALSE, label_id |-> "", rows |-> <<>>]

\* the folders a message of the modelled mailbox can be in: Inbox and Sent
MailFolders == {"0", "2"}

\* the mailboxes of at most MaxInbox messages; message k (from 1, newest
\* first) has the durable identifier MessageId(k - 1) and is in mb[k]
Mailboxes == UNION {[1..n -> MailFolders] : n \in 0..MaxInbox}

\* the identifiers of the messages of mb under label_id, newest first;
\* label "5" (All Mail) is on every message
LabelListing(mb, label_id) ==
    LET F[k \in 0..Len(mb)] ==
          IF k = 0 THEN <<>>
          ELSE IF label_id = "5" \/ mb[k] = label_id
               THEN Append(F[k - 1], MessageId(k - 1))
               ELSE F[k - 1]
    IN  F[Len(mb)]

\* proton.get_messages(page_size=..., label_or_id=label_id) on mailbox mb:
\* every message under the label, whatever the page size
mailbox_get_messages(mb, label_id) ==
    [error |-> NoError, messages |-> LabelListing(mb, label_id)]

\* proton.get_messages_by_page(page=page, page_size=limit) on mailbox mb
mailbox_get_messages_by_page(mb, page, limit) ==
    LET all == LabelListing(mb, "5")
        from == page * limit + 1
        to == IF (page + 1) * limit < Len(all) THEN (page + 1) * limit ELSE Len(all)
    IN  [error |-> NoError, messages |-> SubSeq(all, from, to)]

(* ----------------------------- processes ------------------------------ *)

\* the exit status of the interpreter: 0 on return, 1 on SystemExit with a
\* message and on any uncaught exception
exit_status(exc) == IF exc = NoExc THEN 0 ELSE 1

\* the process of command c with references r ends in handler state st
Exits(c, r, st) ==
    /\ pc' = "exited"
    /\ cmd' = c
    /\ refs' = r
    /\ calls' = st.calls
    /\ snapshot' = st.inbox_cache
    /\ ids' = st.ids
    /\ stdout' = st.stdout
    /\ outcome' = [exit |-> exit_status(st.exc), exc |-> st.exc]
    /\ UNCHANGED watching

Init ==
    /\ session = FALSE
    /\ pc = "idle"
    /\ cmd = ""
    /\ refs = <<>>
    /\ calls = <<>>
    /\ snapshot = [fetched |-> FALSE, messages |-> <<>>]
    /\ ids = <<>>
    /\ stdout = <<>>
    /\ outcome = [exit |-> 0, exc |-> NoExc]
    /\ mailbox = <<>>
    /\ listed = NoListing
    /\ watching = NotWatching

Delete ==
    /\ pc = "idle"
    /\ \E r \in Batches, resp \in FetchResponses, m1 \in MutationResponses :
         Exits("delete", r, delete(session, r, resp, m1))
    /\ UNCHANGED <<session, mailbox, listed>>

Archive ==
    /\ pc = "idle"
    /\ \E r \in Batches, resp \in FetchResponses, m1, m2 \in MutationResponses :
         Exits("archive", r, archive(session, r, resp, m1, m2))
    /\ UNCHANGED <<session, mailbox, listed>>

Spam ==
    /\ pc = "idle"
    /\ \E r \in Batches, resp \in FetchResponses, m1, m2 \in MutationResponses :
         Exits("spam", r, spam(session, r, resp, m1, m2))
    /\ UNCHANGED <<session, mailbox, listed>>

Star ==
    /\ pc = "idle"
    /\ \E r \in Batches, resp \in FetchResponses, m1 \in MutationResponses :
         Exits("star", r, star(session, r, resp, m1))
    /\ UNCHANGED <<session, mailbox, listed>>

Unread ==
    /\ pc = "idle"
    /\ \E r \in Batches, resp \in FetchResponses, m1 \in MutationResponses :
         Exits("unread", r, unread(session, r, resp, m1))
    /\ UNCHANGED <<session, mailbox, listed>>

Read ==
    /\ pc = "idle"
    /\ \E r \in RefStrings, nmr \in BOOLEAN, resp \in FetchResponses,
          m1 \in MutationResponses :
         Exits("read", <<r>>, read(session, r, nmr, resp, m1))
    /\ UNCHANGED <<session, mailbox, listed>>

Reply ==
    /\ pc = "idle"
    /\ \E r \in RefStrings, resp \in FetchResponses,
          m1, m2, m3 \in MutationResponses :
         Exits("reply", <<r>>, reply(session, r, resp, m1, m2, m3))
    /\ UNCHANGED <<session, mailbox, listed>>

Forward ==
    /\ pc = "idle"
    /\ \E r \in RefStrings, resp \in FetchResponses,
          m1, m2, m3 \in MutationResponses :
         Exits("forward", <<r>>, forward(session, r, resp, m1, m2, m3))
    /\ UNCHANGED <<session, mailbox, listed>>

Download ==
    /\ pc = "idle"
    /\ \E r \in RefStrings, resp \in FetchResponses, att \in BOOLEAN,
          m1, m2 \in MutationResponses :
         Exits("download", <<r>>, download(session, r, resp, m1, att, m2))
    /\ UNCHANGED <<session, mailbox, listed>>

Ls ==
    /\ pc = "idle"
    /\ \E folder \in FolderArgs, limit \in 0..MaxInbox, page \in 0..1,
          by_page, by_label \in FetchResponses :
         Exits("ls", <<>>, ls(session, folder, limit, page, by_page, by_label))
    /\ UNCHANGED <<session, mailbox, listed>>

Login ==
    /\ pc = "idle"
    /\ \E m \in MutationResponses :
         /\ Exits("login", <<>>, login(m))
         /\ session' = IF m = NoError THEN TRUE ELSE session
    /\ UNCHANGED <<mailbox, listed>>

Logout ==
    /\ pc = "idle"
    /\ Exits("logout", <<>>, logout(session))
    /\ session' = FALSE
    /\ UNCHANGED <<mailbox, listed>>

Whoami ==
    /\ pc = "idle"
    /\ \E n \in 0..1 : Exits("whoami", <<>>, whoami(session, n))
    /\ UNCHANGED <<session, mailbox, listed>>

Thread ==
    /\ pc = "idle"
    /\ \E m \in MutationResponses : Exits("thread", <<>>, thread(session, m))
    /\ UNCHANGED <<session, mailbox, listed>>

Send ==
    /\ pc = "idle"
    /\ \E attach \in BOOLEAN, m1, m2, m3 \in MutationResponses :
         Exits("send", <<>>, send(session, attach, m1, m2, m3))
    /\ UNCHANGED <<session, mailbox, listed>>

Folders ==
    /\ pc = "idle"
    /\ \E m \in MutationResponses : Exits("folders", <<>>, folders(session, m))
    /\ UNCHANGED <<session, mailbox, listed>>

Count ==
    /\ pc = "idle"
    /\ \E m \in MutationResponses : Exits("count", <<>>, count(session, m))
    /\ UNCHANGED <<session, mailbox, listed>>

\* watch: get_client, the first line, and event_polling is entered
Watch ==
    /\ pc = "idle"
    /\ \E timeout \in 0..MaxPolls :
         LET st == print_line(get_client(session, Start), "Watching for new messages")
         IN  IF st.exc # NoExc
             THEN Exits("watch", <<>>, st)
             ELSE /\ pc' = "watching"
                  /\ cmd' = "watch"
                  /\ stdout' = st.stdout
                  /\ watching' = [timeout |-> timeout, elapsed |-> 0]
                  /\ UNCHANGED <<refs, calls, snapshot, ids, outcome>>
    /\ UNCHANGED <<session, mailbox, listed>>

\* one poll and the interval after it; an exception, of the poll or of
\* on_event, is none watch catches and ends the process
WatchPoll ==
    /\ pc = "watching"
    /\ watching.timeout = 0 \/ watching.elapsed < watching.timeout
    /\ watching.elapsed < MaxPolls
    /\ \E resp \in PollResponses :
         LET st == poll(Running, resp)
         IN  IF st.exc # NoExc
             THEN Exits("watch", <<>>, st)
             ELSE /\ calls' = st.calls
                  /\ stdout' = st.stdout
                  /\ watching' = [watching EXCEPT !.elapsed = @ + 1]
                  /\ UNCHANGED <<pc, cmd, refs, snapshot, ids, outcome>>
    /\ UNCHANGED <<session, mailbox, listed>>

\* the timeout has passed: event_polling returns (rise_timeout=False)
WatchTimeout ==
    /\ pc = "watching"
    /\ watching.timeout > 0
    /\ watching.elapsed >= watching.timeout
    /\ Exits("watch", <<>>, Running)
    /\ UNCHANGED <<session, mailbox, listed>>

\* Ctrl+C: except KeyboardInterrupt
WatchInterrupt ==
    /\ pc = "watching"
    /\ Exits("watch", <<>>, print_line(Running, "Stopped watching."))
    /\ UNCHANGED <<session, mailbox, listed>>

\* the process is gone; the next command line starts from the session file
NextInvocation ==
    /\ pc = "exited"
    /\ pc' = "idle"
    /\ cmd' = ""
    /\ refs' = <<>>
    /\ calls' = <<>>
    /\ snapshot' = [fetched |-> FALSE, messages |-> <<>>]
    /\ ids' = <<>>
    /\ stdout' = <<>>
    /\ outcome' = [exit |-> 0, exc |-> NoExc]
    /\ watching' = NotWatching
    /\ UNCHANGED <<session, mailbox, listed>>

(* ------------- commands against a mailbox that stays as it is ---------- *)

\* the collaborator answers every call from mailbox and does not fail
InitListing ==
    /\ session = FALSE
    /\ pc = "idle"
    /\ cmd = ""
    /\ refs = <<>>
    /\ calls = <<>>
    /\ snapshot = [fetched |-> FALSE, messages |-> <<>>]
    /\ ids = <<>>
    /\ stdout = <<>>
    /\ outcome = [exit |-> 0, exc |-> NoExc]
    /\ mailbox \in Mailboxes
    /\ listed = NoListing
    /\ watching = NotWatching

\* ls against the mailbox; the rows it prints are the last listing
LsMailbox ==
    /\ pc = "idle"
    /\ \E folder \in FolderArgs, limit \in 0..MaxInbox, page \in 0..1 :
         LET label_id == get(FOLDER_ALIASES, lower(folder), folder)
             st == ls(session, folder, limit, page,
                      mailbox_get_messages_by_page(mailbox, page, limit),
                      mailbox_get_messages(mailbox, label_id))
         IN  /\ Exits("ls", <<>>, st)
             /\ listed' = IF st.exc = NoExc /\ Len(st.inbox_cache.messages) > 0
                           THEN [shown |-> TRUE, label_id |-> label_id,
                                 rows |-> st.inbox_cache.messages]
                           ELSE listed
    /\ UNCHANGED <<session, mailbox>>

ReadMailbox ==
    /\ pc = "idle"
    /\ \E r \in RefStrings, nmr \in BOOLEAN :
         Exits("read", <<r>>,
               read(session, r, nmr, mailbox_get_messages(mailbox, "0"), NoError))
    /\ UNCHANGED <<session, mailbox, listed>>

ReplyMailbox ==
    /\ pc = "idle"
    /\ \E r \in RefStrings :
         Exits("reply", <<r>>,
               reply(session, r, mailbox_get_messages(mailbox, "0"),
                     NoError, NoError, NoError))
    /\ UNCHANGED <<session, mailbox, listed>>

ForwardMailbox ==
    /\ pc = "idle"
    /\ \E r \in RefStrings :
         Exits("forward", <<r>>,
               forward(session, r, mailbox_get_messages(mailbox, "0"),
                       NoError, NoError, NoError))
    /\ UNCHANGED <<session, mailbox, listed>>

DownloadMailbox ==
    /\ pc = "idle"
    /\ \E r \in RefStrings, att \in BOOLEAN :
         Exits("download", <<r>>,
               download(session, r, mailbox_get_messages(mailbox, "0"),
                        NoError, att, NoError))
    /\ UNCHANGED <<session, mailbox, listed>>

DeleteMailbox ==
    /\ pc = "idle"
    /\ \E r \in Batches :
         Exits("delete", r,
               delete(session, r, mailbox_get_messages(mailbox, "0"), NoError))
    /\ UNCHANGED <<session, mailbox, listed>>

ArchiveMailbox ==
    /\ pc = "idle"
    /\ \E r \in Batches :
         Exits("archive", r,
               archive(session, r, mailbox_get_messages(mailbox, "0"),
                       NoError, NoError))
    /\ UNCHANGED <<session, mailbox, listed>>

SpamMailbox ==
    /\ pc = "idle"
    /\ \E r \in Batches :
         Exits("spam", r,
               spam(session, r, mailbox_get_messages(mailbox, "0"),
                    NoError, NoError))
    /\ UNCHANGED <<session, mailbox, listed>>

StarMailbox ==
    /\ pc = "idle"
    /\ \E r \in Batches :
         Exits("star", r,
               star(session, r, mailbox_get_messages(mailbox, "0"), NoError))
    /\ UNCHANGED <<session, mailbox, listed>>

UnreadMailbox ==
    /\ pc = "idle"
    /\ \E r \in Batches :
         Exits("unread", r,
               unread(session, r, mailbox_get_messages(mailbox, "0"), NoError))
    /\ UNCHANGED <<session, mailbox, listed>>

\* the next command line; a command that issued a mutation call has
\* changed the mailbox in a way the collaborator decides, and the last
\* listing no longer describes it
NextMailboxInvocation ==
    /\ pc = "exited"
    /\ pc' = "idle"
    /\ cmd' = ""
    /\ refs' = <<>>
    /\ calls' = <<>>
    /\ snapshot' = [fetched |-> FALSE, messages |-> <<>>]
    /\ ids' = <<>>
    /\ stdout' = <<>>
    /\ outcome' = [exit |-> 0, exc |-> NoExc]
    /\ IF \E i \in DOMAIN calls :
            calls[i].op \in {"delete_messages", "set_label_for_messages",
                             "unset_label_for_messages"}
       THEN mailbox' \in Mailboxes /\ listed' = NoListing
       ELSE UNCHANGED <<mailbox, listed>>
    /\ UNCHANGED <<session, watching>>

NextListing ==
    \/ Login \/ LsMailbox
    \/ ReadMailbox \/ ReplyMailbox \/ ForwardMailbox \/ DownloadMailbox
    \/ DeleteMailbox \/ ArchiveMailbox \/ SpamMailbox \/ StarMailbox
    \/ UnreadMailbox
    \/ NextMailboxInvocation

SpecListing == InitListing /\ [][NextListing]_vars

Next ==
    \/ Login \/ Logout \/ Ls
    \/ Read \/ Reply \/ Forward \/ Download
    \/ Delete \/ Archive \/ Spam \/ Star \/ Unread
    \/ Whoami \/ Thread \/ Send \/ Folders \/ Count
    \/ Watch \/ WatchPoll \/ WatchTimeout \/ WatchInterrupt
    \/ NextInvocation

Spec == Init /\ [][Next]_vars

(* ------------------------------ properties ---------------------------- *)

Done == pc = "exited"
BatchCommands == {"delete", "archive", "spam", "star", "unread"}
SingleCommands == {"read", "reply", "forward", "download"}
\* a batch command got past get_client and called _resolve_refs
BatchRun == Done /\ cmd \in BatchCommands /\ session
SingleRun == Done /\ cmd \in SingleCommands /\ session

MutationOps ==
    {"delete_messages", "set_label_for_messages", "unset_label_for_messages",
     "mark_messages_as_unread"}
IsMutation(c) == c.op \in MutationOps
IsFetch(c) == c.op = "get_messages"
Fetches == {i \in DOMAIN calls : IsFetch(calls[i])}
Mutations == SelectSeq(calls, IsMutation)

\* the classification the specification states: an Index is a non-empty
\* string of decimal digits of length at most 4, anything else a DurableId
IsIndexRef(ref) ==
    /\ Len(ref) \in 1..4
    /\ \A i \in 1..Len(ref) : ref[i] \in DecimalDigits
IndexPositions == {i \in DOMAIN refs : IsIndexRef(refs[i])}
OutOfRangeExit ==
    /\ outcome.exc.type = "SystemExit"
    /\ outcome.exc.msg = "Index out of range"

\* C1: in every run of the batch resolver the inbox listing is fetched
\* exactly once when the batch holds an Index reference and never when it
\* holds none, and the fetch asks for at least max_index + 1 messages, the
\* maximum taken over the whole batch; also when the run ends out of range.
C1_OneFetchSizedToMax ==
    BatchRun =>
        IF IndexPositions = {}
        THEN Fetches = {}
        ELSE /\ Cardinality(Fetches) = 1
             /\ \A i \in Fetches :
                  calls[i].page_size >=
                    Max({int(refs[j]) : j \in IndexPositions}) + 1

\* C2: when the batch resolver succeeds, the output is as long as the
\* input and, position by position, a DurableId is passed through unchanged
\* and Index(idx) becomes the identifier at position idx of the one fetched
\* snapshot; order and duplicates are kept.
C2_ResolvedPositionwise ==
    (BatchRun /\ outcome.exit = 0) =>
        /\ Len(ids) = Len(refs)
        /\ \A i \in DOMAIN refs :
             IF IsIndexRef(refs[i])
             THEN /\ snapshot.fetched
                  /\ int(refs[i]) < Len(snapshot.messages)
                  /\ ids[i] = snapshot.messages[int(refs[i]) + 1]
             ELSE ids[i] = refs[i]

\* a successful batch of two that names the second message of the inbox by
\* index and then a durable identifier
C2_Witness ==
    /\ BatchRun /\ outcome.exit = 0 /\ Len(refs) = 2
    /\ IsIndexRef(refs[1]) /\ int(refs[1]) = 1
    /\ ~IsIndexRef(refs[2])
    /\ ids = <<MessageId(1), refs[2]>>

\* C3: if any Index reference of a batch is at or beyond the length of the
\* fetched snapshot, the command fails and issues no mutation call, also
\* when earlier references of the batch were resolved.
C3_OutOfRangeNoMutation ==
    (BatchRun /\ snapshot.fetched
       /\ \E i \in IndexPositions : int(refs[i]) >= Len(snapshot.messages)) =>
        /\ outcome.exit # 0
        /\ Mutations = <<>>
        /\ stdout = <<>>

\* the first reference was resolved and the second is out of range
C3_Witness ==
    /\ BatchRun /\ snapshot.fetched /\ Len(refs) = 2
    /\ IsIndexRef(refs[1]) /\ int(refs[1]) < Len(snapshot.messages)
    /\ IsIndexRef(refs[2]) /\ int(refs[2]) >= Len(snapshot.messages)
    /\ Len(ids) = 1
    /\ OutOfRangeExit

\* C4: every out-of-range failure, of the batch resolver and of read,
\* reply, forward and download, reports the requested index and the length
\* of the fetched snapshot.
C4_OutOfRangeReportsBoth ==
    (Done /\ cmd \in BatchCommands \cup SingleCommands /\ OutOfRangeExit) =>
        /\ "requested" \in DOMAIN outcome.exc.reported
        /\ "available" \in DOMAIN outcome.exc.reported
        /\ outcome.exc.reported.available = Len(snapshot.messages)

\* C5: classification is lexical and total: a reference is handled as an
\* Index iff it is made of decimal digits only and has length <= 4, and
\* otherwise is passed through unchanged without any lookup; every string
\* the code sends to the index branch has an integer value in 0..9999.
C5_LexicalTotalClassification ==
    /\ (BatchRun \/ SingleRun) =>
         \A i \in DOMAIN refs :
            /\ looks_like_index(refs[i]) <=> IsIndexRef(refs[i])
            /\ looks_like_index(refs[i]) =>
                 (int_parses(refs[i]) /\ int(refs[i]) \in 0..9999)
    /\ SingleRun =>
         IF IsIndexRef(refs[1])
         THEN /\ Cardinality(Fetches) = 1
              /\ \A i \in Fetches : calls[i].page_size = int(refs[1]) + 1
         ELSE /\ Fetches = {}
              /\ ids = <<refs[1]>>
              /\ outcome.exc # ValueError

AddLabelOf(c) == IF c = "archive" THEN "4" ELSE "6"

\* C6: in every archive and spam run the add-label call (label 4, resp. 6)
\* comes before the remove-label call for label 0, both over the resolved
\* identifiers, and the remove-label call is issued only after the add-label
\* call returned without failure.
C6_AddBeforeRemove ==
    (BatchRun /\ cmd \in {"archive", "spam"}) =>
        /\ Len(Mutations) <= 2
        /\ Len(Mutations) >= 1 =>
             /\ Mutations[1].op = "set_label_for_messages"
             /\ Mutations[1].label = AddLabelOf(cmd)
             /\ Mutations[1].ids = ids
        /\ Len(Mutations) = 2 =>
             /\ Mutations[1].error = NoError
             /\ Mutations[2].op = "unset_label_for_messages"
             /\ Mutations[2].label = "0"
             /\ Mutations[2].ids = Mutations[1].ids
        /\ outcome.exit = 0 => Len(Mutations) = 2

\* an archive of two messages whose remove-label call was issued
C6_Witness ==
    /\ BatchRun /\ cmd = "archive" /\ Len(ids) = 2
    /\ Len(Mutations) = 2
    /\ Mutations[2].op = "unset_label_for_messages"

\* the handler state of command c rerun on the same references and the same
\* snapshot with the add-label call failing with e
CleanFailure(c, e) ==
    LET resp == [error |-> NoError, messages |-> snapshot.messages]
    IN  IF c = "archive" THEN archive(TRUE, refs, resp, e, NoError)
        ELSE spam(TRUE, refs, resp, e, NoError)

\* C7: for archive and spam, when the add-label call succeeds and the
\* remove-label call fails, what the command reports differs from what it
\* reports for every clean failure (the add-label call itself failing).
C7_PartialFailureDistinct ==
    (BatchRun /\ cmd \in {"archive", "spam"} /\ Len(Mutations) = 2
       /\ Mutations[1].error = NoError /\ Mutations[2].error # NoError) =>
        \A e \in CollabErrors :
            <<outcome.exc, stdout>> #
              <<CleanFailure(cmd, e).exc, CleanFailure(cmd, e).stdout>>

\* C8: a failing collaborator call ends the action command at once with a
\* non-zero exit status, no success message and no further call; the command
\* exits zero and prints success only when every call it issued succeeded,
\* and then reports as count the number of resolved identifiers.
C8_FailurePropagates ==
    BatchRun =>
        /\ \A i \in DOMAIN calls :
             calls[i].error # NoError =>
                /\ i = Len(calls)
                /\ outcome.exit # 0
                /\ outcome.exc = CollabExc(calls[i].error)
                /\ stdout = <<>>
        /\ (outcome.exit = 0 \/ stdout # <<>>) =>
             /\ outcome.exit = 0
             /\ \A i \in DOMAIN calls : calls[i].error = NoError
             /\ Len(stdout) = 1
             /\ stdout[1].count = Len(ids)
             /\ Len(ids) = Len(refs)

\* an archive whose remove-label call failed after a successful fetch
C8_Witness ==
    /\ BatchRun /\ cmd = "archive" /\ Len(calls) = 3
    /\ calls[3].error # NoError
    /\ outcome.exit = 1

MutationCount(c) == IF c \in {"archive", "spam"} THEN 2 ELSE 1

\* C9: in a successful action command the collaborator calls are at most one
\* inbox fetch followed by exactly one mutation call (delete, star, unread)
\* or exactly two (archive, spam), each over the whole resolved sequence.
C9_CallSequence ==
    (BatchRun /\ outcome.exit = 0) =>
        /\ Cardinality(Fetches) <= 1
        /\ Fetches \subseteq {1}
        /\ Len(calls) = Cardinality(Fetches) + MutationCount(cmd)
        /\ \A i \in DOMAIN calls :
             i \notin Fetches => (IsMutation(calls[i]) /\ calls[i].ids = ids)

\* a successful spam of two messages, one of them named by index
C9_Witness ==
    /\ BatchRun /\ outcome.exit = 0 /\ cmd = "spam"
    /\ Len(ids) = 2 /\ Fetches = {1} /\ Len(calls) = 3

\* C10: the label star applies is the one the program's tables call
\* Starred: SYSTEM_LABELS names it "Starred" and the folder alias "starred"
\* of ls stands for it.
C10_StarAppliesStarred ==
    (BatchRun /\ cmd = "star" /\ Len(Mutations) >= 1) =>
        /\ Len(Mutations) = 1
        /\ Mutations[1].op = "set_label_for_messages"
        /\ get(SYSTEM_LABELS, Mutations[1].label, "") = "Starred"
        /\ get(FOLDER_ALIASES, lower("starred"), "starred") = Mutations[1].label

\* C11: an index reference denotes the message the last ls displayed in
\* that row: with the mailbox as it was when ls displayed message m in row
\* #i, a command given the reference i operates on m.
C11_IndexDenotesListedRow ==
    (Done /\ cmd \in BatchCommands \cup SingleCommands /\ listed.shown) =>
        \A k \in DOMAIN refs :
           (IsIndexRef(refs[k]) /\ int(refs[k]) < Len(listed.rows)) =>
              /\ outcome.exit = 0
              /\ Len(ids) = Len(refs)
              /\ ids[k] = listed.rows[int(refs[k]) + 1]

\* a watch that got past get_client has ended
WatchEnded == Done /\ cmd = "watch" /\ outcome.exc # NotLoggedIn

\* C12: a watch ends only by an interrupt or by the expiry of a timeout
\* other than 0; in particular a failure to render the events of a poll
\* does not end it.
C12_WatchEndsOnlyByInterruptOrTimeout ==
    WatchEnded =>
        /\ outcome.exc # RenderError
        /\ outcome.exc = NoExc
        /\ \/ stdout[Len(stdout)] = [text |-> "Stopped watching."]
           \/ (watching.timeout > 0 /\ watching.elapsed >= watching.timeout)

\* the commands that work on the mailbox: all but login and logout
MailCommands ==
    {"ls", "read", "thread", "send", "reply", "forward", "delete", "archive",
     "spam", "star", "unread", "folders", "count", "download", "watch",
     "whoami"}

\* a step in which a command ends
CommandEnds == pc # "exited" /\ pc' = "exited"

\* a step in which a command starts
CommandStarts == pc = "idle" /\ pc' # "idle"

SessionStep ==
    /\ (CommandEnds /\ cmd' = "login" /\ outcome'.exit = 0) => session'
    /\ (CommandEnds /\ cmd' = "login" /\ outcome'.exit # 0) =>
          /\ session' = session
          /\ outcome'.exc.msg = "Login failed"
    /\ (CommandEnds /\ cmd' = "logout") => ~session'
    /\ ~(CommandEnds /\ cmd' \in {"login", "logout"}) => session' = session
    /\ (CommandStarts /\ cmd' \in MailCommands /\ ~session) =>
          /\ pc' = "exited"
          /\ outcome'.exc = NotLoggedIn
          /\ outcome'.exit = 1
          /\ calls' = <<>>

\* C13: there is no session at first; a successful login creates one, a
\* logout removes it, and no other step, a failed login included, changes
\* it; a mail command started without a session ends with "Not logged in"
\* and has made no collaborator call.
C13_SessionFollowsLoginAndLogout == ~session /\ [][SessionStep]_vars

\* a mail command has been run without a session
C13_Witness ==
    /\ Done /\ cmd \in MailCommands /\ ~session
    /\ outcome.exc = NotLoggedIn /\ calls = <<>>

====
